---- MODULE Spec2Model ----
(***************************************************************************)
(* A model of python/ray/tune/experiment/experiment.py: the construction   *)
(* of an Experiment (checkpoint-policy check, trainable registration,      *)
(* storage resolution, stop composition, log_to_file validation, spec      *)
(* assembly), its path properties, and the class methods                   *)
(* register_if_needed / get_trainable_name.                                *)
(*                                                                         *)
(* Python values are tagged records ([t |-> "str", s |-> ...]); a string   *)
(* is a sequence of tokens, so that formatting and path joining are        *)
(* concatenations that can be told apart from their arguments.             *)
(***************************************************************************)
EXTENDS Naturals, Sequences, FiniteSets, TLC

VARIABLES
    registry,   \* the process-wide trainable registry: name -> object
    env,        \* process environment: TUNE_DISABLE_DATED_SUBDIR, storage mode
    now,        \* the wall clock read by date_str()
    exp,        \* the attributes of the Experiment object of the last construction
    call,       \* the last call: operation, arguments, outcome, registry before it
    firstRead   \* the first read of local_path / remote_path / path of exp

vars == <<registry, env, now, exp, call, firstRead>>

---------------------------------------------------------------------------
(* Bounds of the model *)

\* the clock takes the values 0..MaxClock
MaxClock == 1

\* longest list passed as `stop`
MaxStopLen == 2

\* longest sequence passed as `log_to_file`
MaxLogLen == 3

\* largest checkpoint_frequency
MaxFrequency == 1

---------------------------------------------------------------------------
(* Python values *)

None == [t |-> "None"]
\* an attribute that has not been assigned
Unset == [t |-> "unset"]
Bool(b) == [t |-> "bool", b |-> b]
Int(n) == [t |-> "int", n |-> n]
Str(s) == [t |-> "str", s |-> s]
List(xs) == [t |-> "list", items |-> xs]
Tuple(xs) == [t |-> "tuple", items |-> xs]
Dict(ks) == [t |-> "dict", keys |-> ks]

\* Python truthiness (`if v:` / `not v` / `a or b`)
Truthy(v) ==
    CASE v.t = "None" -> FALSE
      [] v.t = "bool" -> v.b
      [] v.t = "int" -> v.n # 0
      [] v.t = "str" -> Len(v.s) > 0
      [] v.t = "list" -> Len(v.items) > 0
      [] v.t = "tuple" -> Len(v.items) > 0
      [] v.t = "dict" -> v.keys # {}
      [] v.t = "callable" -> v.truthy
      [] OTHER -> TRUE

\* `a or b`
Or(a, b) == IF Truthy(a) THEN a ELSE b

\* str(v) as "{}".format(v) gives it
Format(v) ==
    CASE v.t = "str" -> v.s
      [] v.t = "None" -> <<"None">>
      [] OTHER -> <<"<", v.t, ">">>

---------------------------------------------------------------------------
(* Paths: strings whose separator is the token "/" *)

Home == <<"/", "home">>
Cwd == <<"/", "cwd">>

IsPrefix(p, q) == Len(p) <= Len(q) /\ SubSeq(q, 1, Len(p)) = p

ExpandUser(p) ==
    IF Len(p) > 0 /\ p[1] = "~" THEN Home \o Tail(p) ELSE p

AbsPath(p) ==
    IF Len(p) > 0 /\ p[1] = "/" THEN p ELSE Cwd \o <<"/">> \o p

\* str(Path(root) / name): an absolute right operand replaces the left one
PathJoin(root, name) ==
    IF Len(name) > 0 /\ name[1] = "/" THEN name
    ELSE IF Len(name) = 0 THEN root
    ELSE root \o <<"/">> \o name

\* str(URI(root) / name)
URIJoin(root, name) == root \o <<"/">> \o name

\* Path(root) in Path(child).parents
InParents(root, child) ==
    /\ Len(child) > Len(root) + 1
    /\ IsPrefix(root, child)
    /\ child[Len(root) + 1] = "/"

\* os.path.relpath(child, root) for a child below root
RelPath(child, root) == SubSeq(child, Len(root) + 2, Len(child))

---------------------------------------------------------------------------
(* Run references *)

\* a class or callable given as `run`:
\*   kind         "class" | "function" | "partial" | "object"
\*   attr_name    its `_name` attribute (Unset: no such attribute)
\*   dunder_name  its `__name__` attribute (Unset: no such attribute)
\*   func_name    `func.__name__` of a functools.partial (Unset: none)
\*   fn           whether it is a function-style trainable
\*   reg          what registering it does: "ok" or the error it raises
Trainable(id, kind, an, dn, fname, fn, reg) ==
    [t |-> "trainable", id |-> id, kind |-> kind, attr_name |-> an,
     dunder_name |-> dn, func_name |-> fname, fn |-> fn, reg |-> reg]

\* ray.tune.search.sample.Domain: a search-space placeholder
Domain == [t |-> "Domain"]

ClassT == Trainable("MyTrainable", "class", Unset, Str(<<"MyTrainable">>), Unset, FALSE, "ok")
FuncT == Trainable("train_fn", "function", Unset, Str(<<"train_fn">>), Unset, TRUE, "ok")
LambdaT == Trainable("lambda0", "function", Unset, Str(<<"<lambda>">>), Unset, TRUE, "ok")
GenT == Trainable("gen0", "function", Unset, Str(<<"<", "locals", ">">>), Unset, TRUE, "ok")
NamedT == Trainable("named0", "class", Str(<<"custom">>), Str(<<"Wrapped">>), Unset, FALSE, "ok")
PartialT == Trainable("partial0", "partial", Unset, Unset, Str(<<"train_fn">>), TRUE, "ok")
PartialLambdaT == Trainable("partial1", "partial", Unset, Unset, Str(<<"<lambda>">>), TRUE, "ok")
PartialGenT == Trainable("partial2", "partial", Unset, Unset, Str(<<"<", "locals", ">">>), TRUE, "ok")
PartialObjT == Trainable("partial3", "partial", Unset, Unset, Unset, TRUE, "ok")
ObjT == Trainable("obj0", "object", Unset, Unset, Unset, TRUE, "ok")
UnpicklableT == Trainable("closure0", "function", Unset, Str(<<"closure">>), Unset, TRUE, "PicklingError")
UntypedT == Trainable("notrain0", "class", Unset, Str(<<"NotTrainable">>), Unset, FALSE, "TypeError")
HugeT == Trainable("huge0", "function", Unset, Str(<<"huge">>), Unset, TRUE, "RpcExhausted")
RpcT == Trainable("rpc0", "function", Unset, Str(<<"rpc">>), Unset, TRUE, "RpcOther")

RunStrings == {Str(<<"PPO">>), Str(<<"unknown">>), Str(<<>>)}
RunTrainables ==
    {ClassT, FuncT, LambdaT, GenT, NamedT, PartialT, PartialLambdaT, PartialGenT,
     PartialObjT, ObjT, UnpicklableT, UntypedT, HugeT, RpcT}
\* neither string, placeholder, type nor callable
RunOthers == {Int(5), None}
AllRuns == RunStrings \cup {Domain} \cup RunTrainables \cup RunOthers

---------------------------------------------------------------------------
(* The trainable registry (ray.tune.registry) *)

EmptyRegistry == [k \in {} |-> None]

RegistryPut(r, name, obj) ==
    [k \in DOMAIN r \cup {name} |-> IF k = name THEN obj ELSE r[k]]

\* register_trainable(name, obj): the outcome [err, registry]; a failed
\* registration leaves the registry as it was
register_trainable(r, name, obj) ==
    IF obj.reg = "ok"
    THEN [err |-> "ok", registry |-> RegistryPut(r, Format(name), obj)]
    ELSE [err |-> obj.reg, registry |-> r]

\* is_function_trainable(run): by capability; a string is looked up
is_function_trainable(r, run) ==
    CASE run.t = "trainable" -> run.fn
      [] run.t = "str" -> run.s \in DOMAIN r /\ r[run.s].fn
      [] OTHER -> FALSE

---------------------------------------------------------------------------
(* Experiment.get_trainable_name and Experiment.register_if_needed *)

\* the __name__ branch of get_trainable_name
NormalizeName(fn_name) ==
    IF fn_name = Str(<<"<lambda>">>) THEN Str(<<"lambda">>)
    ELSE IF fn_name.t = "str" /\ Len(fn_name.s) > 0 /\ fn_name.s[1] = "<"
    THEN Str(<<"DEFAULT">>)
    ELSE fn_name

\* [err, ret, warned]
get_trainable_name(run_object) ==
    IF run_object.t = "str" \/ run_object.t = "Domain"
    THEN [err |-> "ok", ret |-> run_object, warned |-> FALSE]
    ELSE IF run_object.t = "trainable"
    THEN IF run_object.attr_name # Unset
         THEN [err |-> "ok", ret |-> run_object.attr_name, warned |-> FALSE]
         ELSE IF run_object.dunder_name # Unset
         THEN [err |-> "ok", ret |-> NormalizeName(run_object.dunder_name),
               warned |-> FALSE]
         ELSE IF run_object.kind = "partial" /\ run_object.func_name # Unset
         THEN [err |-> "ok", ret |-> run_object.func_name, warned |-> FALSE]
         ELSE [err |-> "ok", ret |-> Str(<<"DEFAULT">>), warned |-> TRUE]
    ELSE [err |-> "InvalidRunReferenceError", ret |-> None, warned |-> FALSE]

\* register_if_needed without the early return for strings
register_if_needed_strings_too(r, run_object) ==
    IF run_object.t = "Domain"
    THEN [err |-> "ok", ret |-> run_object, registry |-> r, calls |-> <<>>]
    ELSE LET nm == get_trainable_name(run_object) IN
         IF nm.err # "ok"
         THEN [err |-> nm.err, ret |-> None, registry |-> r, calls |-> <<>>]
         ELSE IF run_object.t = "str"
         THEN [err |-> "ok", ret |-> nm.ret,
               registry |-> RegistryPut(r, nm.ret.s, run_object),
               calls |-> << <<nm.ret, "str">> >>]
         ELSE LET reg == register_trainable(r, nm.ret, run_object) IN
              [err |-> reg.err,
               ret |-> IF reg.err = "ok" THEN nm.ret ELSE None,
               registry |-> reg.registry,
               calls |-> << <<nm.ret, run_object.id>> >>]

\* [err, ret, registry, calls]: calls lists the register_trainable calls made
register_if_needed(r, run_object) ==
    IF run_object.t = "str"
    THEN [err |-> "ok", ret |-> run_object, registry |-> r, calls |-> <<>>]
    ELSE IF run_object.t = "Domain"
    THEN [err |-> "ok", ret |-> run_object, registry |-> r, calls |-> <<>>]
    ELSE LET nm == get_trainable_name(run_object) IN
         IF nm.err # "ok"
         THEN [err |-> nm.err, ret |-> None, registry |-> r, calls |-> <<>>]
         ELSE LET reg == register_trainable(r, nm.ret, run_object) IN
              [err |-> reg.err,
               ret |-> IF reg.err = "ok" THEN nm.ret ELSE None,
               registry |-> reg.registry,
               calls |-> << <<nm.ret, run_object.id>> >>]

---------------------------------------------------------------------------
(* Collaborators of the storage resolution *)

\* the process-wide results directory (_get_defaults_results_dir)
DefaultResultsDir == <<"/", "home", "/", "ray_results">>

\* a storage path is remote when it is a URI
IsRemote(p) == Len(p) > 0 /\ p[1] \in {"s3://", "gs://"}

SyncConfig(upload_dir) == [t |-> "SyncConfig", upload_dir |-> upload_dir]

\* SyncConfig(**mapping)
SyncConfigFromDict(d) ==
    SyncConfig(IF "upload_dir" \in d.keys THEN d.upload_dir ELSE None)

\* _resolve_storage_path(path, legacy_local_dir, legacy_upload_dir):
\* [err, local, remote]; contradictory sources are an error
resolve_storage_path(path, legacy_local_dir, legacy_upload_dir) ==
    IF Truthy(path) /\ (Truthy(legacy_local_dir) \/ Truthy(legacy_upload_dir))
    THEN [err |-> "StoragePathConflictError", local |-> None, remote |-> None]
    ELSE IF Truthy(path)
    THEN IF IsRemote(path.s)
         THEN [err |-> "ok", local |-> None, remote |-> path]
         ELSE [err |-> "ok", local |-> path, remote |-> None]
    ELSE [err |-> "ok",
          local |-> IF Truthy(legacy_local_dir) THEN legacy_local_dir ELSE None,
          remote |-> IF Truthy(legacy_upload_dir) THEN legacy_upload_dir ELSE None]

\* StorageContext(storage_path, storage_filesystem, sync_config, experiment_dir_name)
StorageContext(storage_path, name) ==
    [t |-> "StorageContext",
     experiment_local_path |-> Str(PathJoin(DefaultResultsDir, Format(name))),
     remote_path |->
        Str(URIJoin(IF Truthy(storage_path) THEN storage_path.s ELSE DefaultResultsDir,
                    Format(name)))]

\* ray.tune.utils.date_str(): the clock, formatted
date_str(clock) == <<"date", ToString(clock)>>

\* _use_storage_context()
use_storage_context(e) == e.storage_context

---------------------------------------------------------------------------
(* Module-level helpers of experiment.py *)

Ok(v) == [err |-> "ok", ret |-> v]
Raise(e) == [err |-> e, ret |-> None]

_validate_log_to_file(log_to_file) ==
    IF ~Truthy(log_to_file) THEN Ok(Tuple(<<None, None>>))
    ELSE IF log_to_file.t = "bool"
    THEN Ok(Tuple(<<Str(<<"stdout">>), Str(<<"stderr">>)>>))
    ELSE IF log_to_file.t = "str" THEN Ok(Tuple(<<log_to_file, log_to_file>>))
    ELSE IF log_to_file.t \in {"list", "tuple"}
    THEN IF Len(log_to_file.items) # 2
         THEN Raise("InvalidLogRoutingError")
         ELSE Ok(Tuple(<<log_to_file.items[1], log_to_file.items[2]>>))
    ELSE Raise("InvalidLogRoutingError")

_get_local_dir_with_expand_user(local_dir) ==
    AbsPath(ExpandUser(IF Truthy(local_dir) THEN local_dir.s ELSE DefaultResultsDir))

\* int(os.environ.get("TUNE_DISABLE_DATED_SUBDIR", 0)) == 1
DatedSubdirDisabled(e) == e.TUNE_DISABLE_DATED_SUBDIR = "1"

\* _get_dir_name that forgets the explicit name
_get_dir_name_ignoring_name(e, clock, run, explicit_name, combined_name) ==
    IF DatedSubdirDisabled(e) \/ run.t = "str"
    THEN combined_name
    ELSE Str(Format(combined_name) \o <<"_">> \o date_str(clock))

_get_dir_name(e, clock, run, explicit_name, combined_name) ==
    IF DatedSubdirDisabled(e) \/ Truthy(explicit_name) \/ run.t = "str"
    THEN combined_name
    ELSE Str(Format(combined_name) \o <<"_">> \o date_str(clock))

---------------------------------------------------------------------------
(* The Experiment object and its path properties *)

\* the attributes before __init__ has assigned any
NewObject ==
    [_run_identifier |-> Unset, storage |-> Unset,
     _legacy_local_storage_path |-> Unset, _legacy_remote_storage_path |-> Unset,
     legacy_sync_config |-> Unset, legacy_dir_name |-> Unset, legacy_name |-> Unset,
     _stopper |-> Unset, spec |-> Unset]

\* local_path that formats the date again on every read
local_path_rederived(e, self) ==
    IF use_storage_context(e)
    THEN IF self.storage.t = "StorageContext"
         THEN Ok(self.storage.experiment_local_path)
         ELSE Raise("AttributeError")
    ELSE IF ~Truthy(self._legacy_local_storage_path) THEN Ok(None)
    ELSE IF self.legacy_dir_name.t # "str" THEN Raise("TypeError")
    ELSE Ok(Str(PathJoin(self._legacy_local_storage_path.s,
                         IF self.legacy_dir_name = self.legacy_name
                         THEN self.legacy_dir_name.s
                         ELSE Format(self.legacy_name) \o <<"_">> \o date_str(now))))

\* Experiment.local_path
local_path(e, self) ==
    IF use_storage_context(e)
    THEN IF self.storage.t = "StorageContext"
         THEN Ok(self.storage.experiment_local_path)
         ELSE Raise("AttributeError")
    ELSE IF ~Truthy(self._legacy_local_storage_path) THEN Ok(None)
    ELSE IF self.legacy_dir_name.t # "str" THEN Raise("TypeError")
    ELSE Ok(Str(PathJoin(self._legacy_local_storage_path.s, self.legacy_dir_name.s)))

\* Experiment.remote_path
remote_path(e, self) ==
    IF use_storage_context(e)
    THEN IF self.storage.t = "StorageContext"
         THEN Ok(self.storage.remote_path)
         ELSE Raise("AttributeError")
    ELSE IF ~Truthy(self._legacy_remote_storage_path) THEN Ok(None)
    ELSE IF self.legacy_dir_name.t # "str" THEN Raise("TypeError")
    ELSE Ok(Str(URIJoin(self._legacy_remote_storage_path.s, self.legacy_dir_name.s)))

\* Experiment.path: remote_path or local_path
path(e, self) ==
    LET rp == remote_path(e, self) IN
    IF rp.err # "ok" THEN rp
    ELSE IF Truthy(rp.ret) THEN rp
    ELSE local_path(e, self)

---------------------------------------------------------------------------
(* Stoppers *)

\* a callable given as `stop`, or an element of a `stop` list:
\*   isStopper  an instance of tune.stopper.Stopper
\*   validFn    FunctionStopper.is_valid_function accepts it
Callable(id, truthy, isStopper, validFn) ==
    [t |-> "callable", id |-> id, truthy |-> truthy, isStopper |-> isStopper,
     validFn |-> validFn]

CombinedStopper(stoppers) == [t |-> "CombinedStopper", stoppers |-> stoppers]
FunctionStopper(fn) == [t |-> "FunctionStopper", fn |-> fn]
TimeoutStopper(timeout) == [t |-> "TimeoutStopper", timeout |-> timeout]

\* isinstance(s, Stopper)
IsStopper(s) == s.t = "callable" /\ s.isStopper

\* callable(stop)
IsCallable(s) == s.t = "callable"

\* ComposeStop with a list check that looks at the first element only
ComposeStopFirstElementOnly(stop) ==
    IF ~Truthy(stop)
    THEN [err |-> "ok", stopper |-> None, criteria |-> Dict({})]
    ELSE IF stop.t = "list"
    THEN IF ~IsStopper(stop.items[1])
         THEN [err |-> "InvalidStopSpecError", stopper |-> None, criteria |-> Dict({})]
         ELSE [err |-> "ok", stopper |-> CombinedStopper(stop.items),
               criteria |-> Dict({})]
    ELSE IF stop.t = "dict"
    THEN [err |-> "ok", stopper |-> None, criteria |-> stop]
    ELSE IF IsCallable(stop)
    THEN IF stop.validFn
         THEN [err |-> "ok", stopper |-> FunctionStopper(stop), criteria |-> Dict({})]
         ELSE IF IsStopper(stop)
         THEN [err |-> "ok", stopper |-> stop, criteria |-> Dict({})]
         ELSE [err |-> "InvalidStopSpecError", stopper |-> None, criteria |-> Dict({})]
    ELSE [err |-> "InvalidStopSpecError", stopper |-> None, criteria |-> Dict({})]

\* lines 268-299 of __init__: [err, stopper, criteria]
ComposeStop(stop) ==
    IF ~Truthy(stop)
    THEN [err |-> "ok", stopper |-> None, criteria |-> Dict({})]
    ELSE IF stop.t = "list"
    THEN IF \E i \in 1..Len(stop.items) : ~IsStopper(stop.items[i])
         THEN [err |-> "InvalidStopSpecError", stopper |-> None, criteria |-> Dict({})]
         ELSE [err |-> "ok", stopper |-> CombinedStopper(stop.items),
               criteria |-> Dict({})]
    ELSE IF stop.t = "dict"
    THEN [err |-> "ok", stopper |-> None, criteria |-> stop]
    ELSE IF IsCallable(stop)
    THEN IF stop.validFn
         THEN [err |-> "ok", stopper |-> FunctionStopper(stop), criteria |-> Dict({})]
         ELSE IF IsStopper(stop)
         THEN [err |-> "ok", stopper |-> stop, criteria |-> Dict({})]
         ELSE [err |-> "InvalidStopSpecError", stopper |-> None, criteria |-> Dict({})]
    ELSE [err |-> "InvalidStopSpecError", stopper |-> None, criteria |-> Dict({})]

\* AddTimeBudget with the timeout stopper put first
AddTimeBudgetFirst(stopper, time_budget_s) ==
    IF Truthy(time_budget_s)
    THEN IF Truthy(stopper)
         THEN CombinedStopper(<<TimeoutStopper(time_budget_s), stopper>>)
         ELSE TimeoutStopper(time_budget_s)
    ELSE stopper

\* lines 301-307 of __init__
AddTimeBudget(stopper, time_budget_s) ==
    IF Truthy(time_budget_s)
    THEN IF Truthy(stopper)
         THEN CombinedStopper(<<stopper, TimeoutStopper(time_budget_s)>>)
         ELSE TimeoutStopper(time_budget_s)
    ELSE stopper

---------------------------------------------------------------------------
(* Checkpoint policy *)

CheckpointConfig(at_end, frequency) ==
    [t |-> "CheckpointConfig", checkpoint_at_end |-> at_end,
     checkpoint_frequency |-> frequency]

\* lines 158-161 of __init__: a mapping is expanded over the defaults
NormalizeCheckpointConfig(cc) ==
    IF cc.t = "dict"
    THEN CheckpointConfig(
            IF "checkpoint_at_end" \in cc.keys THEN cc.checkpoint_at_end ELSE None,
            IF "checkpoint_frequency" \in cc.keys THEN cc.checkpoint_frequency
            ELSE Int(0))
    ELSE IF cc.t = "CheckpointConfig" THEN cc
    ELSE CheckpointConfig(None, Int(0))

\* CheckFunctionCheckpointing without the checkpoint_frequency check
CheckFunctionCheckpointingAtEndOnly(r, run, cc) ==
    IF is_function_trainable(r, run) /\ Truthy(cc.checkpoint_at_end)
    THEN "IncompatibleCheckpointPolicyError"
    ELSE "ok"

\* lines 163-178 of __init__: the error raised, or "ok"
CheckFunctionCheckpointing(r, run, cc) ==
    IF is_function_trainable(r, run)
       /\ (Truthy(cc.checkpoint_at_end) \/ Truthy(cc.checkpoint_frequency))
    THEN "IncompatibleCheckpointPolicyError"
    ELSE "ok"

---------------------------------------------------------------------------
(* Experiment.__init__ *)

\* lines 212-215: the sync settings, from a mapping, an object or the default
NormalizeSyncConfig(sc) ==
    IF sc.t = "dict" THEN SyncConfigFromDict(sc)
    ELSE IF Truthy(sc) THEN sc
    ELSE SyncConfig(None)

\* ResolveLegacyDirName without the closing `assert self.legacy_dir_name`
ResolveLegacyDirNameUnchecked(e, clock, a, self, full_local_storage_path, remote_storage_path) ==
    LET override == a._experiment_checkpoint_dir
        named ==
            [self EXCEPT
                !._legacy_local_storage_path = Str(full_local_storage_path),
                !._legacy_remote_storage_path = remote_storage_path,
                !.legacy_name = Or(a.name, self._run_identifier)]
    IN  IF Truthy(override) /\ ~InParents(full_local_storage_path, override.s)
        THEN [err |-> "InvalidOverrideError", obj |-> self]
        ELSE [err |-> "ok",
              obj |-> [named EXCEPT !.legacy_dir_name =
                        IF Truthy(override)
                        THEN Str(RelPath(override.s, full_local_storage_path))
                        ELSE _get_dir_name(e, clock, a.run, a.name, named.legacy_name)]]

\* lines 244-264, once the local root is known: [err, obj]
ResolveLegacyDirName(e, clock, a, self, full_local_storage_path, remote_storage_path) ==
    LET override == a._experiment_checkpoint_dir
        named ==
            [self EXCEPT
                !._legacy_local_storage_path = Str(full_local_storage_path),
                !._legacy_remote_storage_path = remote_storage_path,
                !.legacy_name = Or(a.name, self._run_identifier)]
    IN  IF Truthy(override) /\ ~InParents(full_local_storage_path, override.s)
        THEN [err |-> "InvalidOverrideError", obj |-> self]
        ELSE LET dir_name ==
                    IF Truthy(override)
                    THEN Str(RelPath(override.s, full_local_storage_path))
                    ELSE _get_dir_name(e, clock, a.run, a.name, named.legacy_name)
                 done == [named EXCEPT !.legacy_dir_name = dir_name]
             IN  IF Truthy(dir_name)
                 THEN [err |-> "ok", obj |-> done]
                 ELSE [err |-> "AssertionError", obj |-> done]

\* lines 194-264: [err, obj]
ResolveStorage(e, clock, a, self) ==
    IF use_storage_context(e)
    THEN IF a.name = None
         THEN [err |-> "AssertionError", obj |-> [self EXCEPT !.storage = None]]
         ELSE [err |-> "ok",
               obj |-> [self EXCEPT
                   !.storage = StorageContext(a.storage_path, a.name),
                   !._legacy_local_storage_path = None,
                   !._legacy_remote_storage_path = None,
                   !.legacy_sync_config = None,
                   !.legacy_dir_name = None,
                   !.legacy_name = None]]
    ELSE LET sync_config == NormalizeSyncConfig(a.sync_config)
             o1 == [self EXCEPT !.storage = None, !.legacy_sync_config = sync_config]
             rs == resolve_storage_path(a.storage_path, a.local_dir,
                                        sync_config.upload_dir)
         IN  IF rs.err # "ok"
             THEN [err |-> rs.err, obj |-> o1]
             ELSE LET local_storage_path ==
                          IF Truthy(a.local_dir) THEN a.local_dir ELSE rs.local
                  IN  ResolveLegacyDirName(e, clock, a, o1,
                          _get_local_dir_with_expand_user(local_storage_path),
                          rs.remote)

\* lines 311-332: the spec mapping
BuildSpec(e, a, self, checkpoint_config, stopping_criteria, log_files, experiment_path) ==
    [run |-> self._run_identifier,
     stop |-> stopping_criteria,
     time_budget_s |-> a.time_budget_s,
     experiment_path |-> experiment_path,
     experiment_dir_name |-> self.legacy_dir_name,
     sync_config |-> self.legacy_sync_config,
     checkpoint_config |-> checkpoint_config,
     log_to_file |-> log_files,
     restore |-> IF Truthy(a.restore)
                 THEN Str(AbsPath(ExpandUser(a.restore.s))) ELSE None,
     storage |-> self.storage]

\* lines 266-332, after the storage has been resolved: [err, obj]
ComposeAndAssemble(e, a, self, checkpoint_config) ==
    LET cs == ComposeStop(a.stop)
        o1 == [self EXCEPT !._stopper = None]
    IN  IF cs.err # "ok" THEN [err |-> cs.err, obj |-> o1]
        ELSE
        LET o2 == [o1 EXCEPT !._stopper = AddTimeBudget(cs.stopper, a.time_budget_s)]
            lg == _validate_log_to_file(a.log_to_file)
        IN  IF lg.err # "ok" THEN [err |-> lg.err, obj |-> o2]
            ELSE
            LET pth == path(e, o2)
            IN  IF pth.err # "ok" THEN [err |-> pth.err, obj |-> o2]
                ELSE [err |-> "ok",
                      obj |-> [o2 EXCEPT !.spec =
                          BuildSpec(e, a, o2, checkpoint_config, cs.criteria,
                                    lg.ret, pth.ret)]]

\* the whole constructor: [err, obj, registry, calls]
Experiment_init(r, e, clock, a) ==
    LET checkpoint_config == NormalizeCheckpointConfig(a.checkpoint_config)
        ck == CheckFunctionCheckpointing(r, a.run, checkpoint_config)
    IN  IF ck # "ok"
        THEN [err |-> ck, obj |-> NewObject, registry |-> r, calls |-> <<>>]
        ELSE
        LET reg == register_if_needed(r, a.run)
        IN  IF reg.err # "ok"
            THEN [err |-> IF reg.err = "RpcExhausted" THEN "TrainableTooLargeError"
                          ELSE reg.err,
                  obj |-> NewObject, registry |-> reg.registry, calls |-> reg.calls]
            ELSE
            LET st == ResolveStorage(e, clock, a,
                          [NewObject EXCEPT !._run_identifier = reg.ret])
            IN  IF st.err # "ok"
                THEN [err |-> st.err, obj |-> st.obj, registry |-> reg.registry,
                      calls |-> reg.calls]
                ELSE
                LET fin == ComposeAndAssemble(e, a, st.obj, checkpoint_config)
                IN  [err |-> fin.err, obj |-> fin.obj, registry |-> reg.registry,
                     calls |-> reg.calls]

---------------------------------------------------------------------------
(* Inputs *)

Names == {None, Str(<<>>), Str(<<"exp1">>)}

S1 == Callable("s1", TRUE, TRUE, FALSE)
S2 == Callable("s2", TRUE, TRUE, FALSE)
\* a Stopper whose __len__ is 0
EmptyStopper == Callable("s0", FALSE, TRUE, FALSE)
StopFn == Callable("fn", TRUE, FALSE, TRUE)
\* a callable that is neither a stop function nor a Stopper
OddCallable == Callable("odd", TRUE, FALSE, FALSE)

StopElements == {S1, S2, Int(7)}

RECURSIVE SeqsUpTo(_, _)
\* the sequences over S of length at most n
SeqsUpTo(S, n) ==
    IF n = 0 THEN {<<>>}
    ELSE LET shorter == SeqsUpTo(S, n - 1)
         IN  shorter \cup {Append(q, x) : q \in shorter, x \in S}

StopLists == {List(q) : q \in SeqsUpTo(StopElements, MaxStopLen)}
StopDicts == {Dict({}), Dict({"mean_accuracy"}), Dict({"mean_accuracy", "loss"})}
StopCallables == {S1, EmptyStopper, StopFn, OddCallable}
\* supplied values that are neither list, mapping nor callable
StopOthers ==
    {Int(0), Int(5), Bool(FALSE), Bool(TRUE), Str(<<>>), Str(<<"acc">>),
     Tuple(<<>>), Tuple(<<S1>>)}
StopInputs == {None} \cup StopLists \cup StopDicts \cup StopCallables \cup StopOthers

TimeBudgets == {None, Int(0), Int(30)}

LogNames == {Str(<<"out.txt">>), Str(<<"err.txt">>)}
LogInputs ==
    {None, Bool(FALSE), Bool(TRUE), Int(0), Int(3), Str(<<>>), Str(<<"log.txt">>),
     Dict({}), Dict({"stdout"})}
    \cup {List(q) : q \in SeqsUpTo(LogNames, MaxLogLen)}
    \cup {Tuple(q) : q \in SeqsUpTo(LogNames, MaxLogLen)}

CheckpointInputs ==
    {None}
    \cup {CheckpointConfig(e, Int(f)) :
            e \in {None, Bool(FALSE), Bool(TRUE)}, f \in 0..MaxFrequency}
    \cup {[t |-> "dict", keys |-> {}]}
    \cup {[t |-> "dict", keys |-> {"checkpoint_at_end"}, checkpoint_at_end |-> Bool(b)] :
            b \in BOOLEAN}
    \cup {[t |-> "dict", keys |-> {"checkpoint_frequency"},
           checkpoint_frequency |-> Int(f)] : f \in 0..MaxFrequency}
    \cup {[t |-> "dict", keys |-> {"checkpoint_at_end", "checkpoint_frequency"},
           checkpoint_at_end |-> Bool(b), checkpoint_frequency |-> Int(f)] :
            b \in BOOLEAN, f \in 0..MaxFrequency}

TmpX == <<"/", "tmp", "/", "x">>
StoragePaths == {None, Str(TmpX), Str(<<"s3://", "bucket">>)}
LocalDirs == {None, Str(<<"~", "/", "old">>)}
SyncConfigs ==
    {None, SyncConfig(Str(<<"s3://", "up">>)),
     [t |-> "dict", keys |-> {"upload_dir"}, upload_dir |-> Str(<<"gs://", "up">>)]}
CheckpointDirs ==
    {None, Str(TmpX \o <<"/", "ck", "/", "sub">>),
     Str(DefaultResultsDir \o <<"/", "ck">>), Str(<<"/", "other", "/", "ck">>)}

\* the arguments of a construction that are not varied
DefaultArgs ==
    [name |-> Str(<<"exp1">>), run |-> Str(<<"PPO">>), stop |-> None,
     time_budget_s |-> None, storage_path |-> None, local_dir |-> None,
     sync_config |-> None, _experiment_checkpoint_dir |-> None,
     checkpoint_config |-> None, log_to_file |-> Bool(FALSE), restore |-> None]

---------------------------------------------------------------------------
(* State machine *)

\* an RLlib algorithm class registered under its name before any experiment
PPOClass == Trainable("PPO", "class", Unset, Str(<<"PPO">>), Unset, FALSE, "ok")
InitialRegistry == RegistryPut(EmptyRegistry, <<"PPO">>, PPOClass)

DatedFlagValues == {"unset", "0", "1"}
Envs == [TUNE_DISABLE_DATED_SUBDIR : DatedFlagValues, storage_context : BOOLEAN]

NoReads == [local_path |-> Unset, remote_path |-> Unset, path |-> Unset]

\* the record kept of a call: what was called, with what, in which
\* environment, how it ended, and the register_trainable calls it made
Called(op, args, err, ret, calls) ==
    [op |-> op, args |-> args, err |-> err, ret |-> ret, calls |-> calls,
     registry_before |-> registry, env |-> env, now |-> now]

Init ==
    /\ registry = InitialRegistry
    /\ env \in Envs
    /\ now = 0
    /\ exp = NewObject
    /\ call = Called("none", None, "ok", None, <<>>)
    /\ firstRead = NoReads

\* no call is on record: the caller has dropped what the last one left
Idle == call.op = "none"

\* Experiment(name, run, ...) with arguments drawn from A
Construct(A) ==
    /\ Idle
    /\ \E a \in A :
        LET res == Experiment_init(registry, env, now, a) IN
        /\ registry' = res.registry
        /\ exp' = res.obj
        /\ call' = Called("__init__", a, res.err, None, res.calls)
        /\ firstRead' = NoReads
        /\ UNCHANGED <<env, now>>

\* the caller drops the outcome of the last call; an Experiment object it
\* held goes out of scope. The registry and the environment stay.
Discard ==
    /\ ~Idle
    /\ exp' = NewObject
    /\ call' = Called("none", None, "ok", None, <<>>)
    /\ firstRead' = NoReads
    /\ UNCHANGED <<registry, env, now>>

\* Experiment.register_if_needed(run)
RegisterIfNeeded(R) ==
    /\ Idle
    /\ \E run \in R :
        LET res == register_if_needed(registry, run) IN
        /\ registry' = res.registry
        /\ call' = Called("register_if_needed", run, res.err, res.ret, res.calls)
        /\ UNCHANGED <<env, now, exp, firstRead>>

\* Experiment.get_trainable_name(run)
GetTrainableName(R) ==
    /\ Idle
    /\ \E run \in R :
        LET res == get_trainable_name(run) IN
        /\ call' = Called("get_trainable_name", run, res.err, res.ret, <<>>)
        /\ UNCHANGED <<registry, env, now, exp, firstRead>>

\* _validate_log_to_file(log_to_file)
ValidateLogToFile ==
    /\ Idle
    /\ \E v \in LogInputs :
        LET res == _validate_log_to_file(v) IN
        /\ call' = Called("_validate_log_to_file", v, res.err, res.ret, <<>>)
        /\ UNCHANGED <<registry, env, now, exp, firstRead>>

\* an Experiment object exists: its construction returned
Constructed == call.op = "__init__" /\ call.err = "ok"

\* a read and the storage mode it was made in
Read(res) == [err |-> res.err, ret |-> res.ret, storage_context |-> env.storage_context]

\* only the first read of a property is kept
Record(reads, prop, res) ==
    IF reads[prop] = Unset THEN [reads EXCEPT ![prop] = Read(res)] ELSE reads

\* a read of exp.local_path
ReadLocalPath ==
    /\ Constructed
    /\ firstRead' = Record(firstRead, "local_path", local_path(env, exp))
    /\ UNCHANGED <<registry, env, now, exp, call>>

\* a read of exp.remote_path
ReadRemotePath ==
    /\ Constructed
    /\ firstRead' = Record(firstRead, "remote_path", remote_path(env, exp))
    /\ UNCHANGED <<registry, env, now, exp, call>>

\* a read of exp.path
ReadPath ==
    /\ Constructed
    /\ firstRead' = Record(firstRead, "path", path(env, exp))
    /\ UNCHANGED <<registry, env, now, exp, call>>

\* time passes
AdvanceClock ==
    /\ now < MaxClock
    /\ now' = now + 1
    /\ UNCHANGED <<registry, env, exp, call, firstRead>>

\* os.environ["TUNE_DISABLE_DATED_SUBDIR"] is set, changed or deleted
SetDatedFlag ==
    /\ \E v \in DatedFlagValues \ {env.TUNE_DISABLE_DATED_SUBDIR} :
            env' = [env EXCEPT !.TUNE_DISABLE_DATED_SUBDIR = v]
    /\ UNCHANGED <<registry, now, exp, call, firstRead>>

\* the process-wide storage mode flag is flipped
SetStorageMode ==
    /\ env' = [env EXCEPT !.storage_context = ~env.storage_context]
    /\ UNCHANGED <<registry, now, exp, call, firstRead>>

---------------------------------------------------------------------------
(* Specifications *)

\* constructions whose arguments fail, or pass, each step of __init__
MainRuns ==
    {Str(<<"PPO">>), Domain, ClassT, FuncT, PartialLambdaT, UnpicklableT, HugeT,
     RpcT, Int(5)}
ArgsMain ==
    {[DefaultArgs EXCEPT !.name = n, !.run = r, !.stop = s, !.log_to_file = g,
                         !.storage_path = p, !.local_dir = p,
                         !._experiment_checkpoint_dir = d,
                         !.checkpoint_config = c] :
        n \in {None, Str(<<"exp1">>)}, r \in MainRuns, s \in {None, Int(5)},
        g \in {Bool(FALSE), Int(3)}, p \in {None, Str(TmpX)},
        d \in {None, Str(<<"/", "other", "/", "ck">>)},
        c \in {None, CheckpointConfig(Bool(TRUE), Int(0))}}

NextMain == Construct(ArgsMain) \/ Discard
Spec == Init /\ [][NextMain]_vars

\* register_if_needed and get_trainable_name on every kind of run reference
NextRegister == RegisterIfNeeded(AllRuns) \/ GetTrainableName(AllRuns) \/ Discard
SpecRegister == Init /\ [][NextRegister]_vars

\* storage resolution: every source of the local and remote roots, under
\* every environment and at every time
StorageSources ==
    {[DefaultArgs EXCEPT !.storage_path = p, !.local_dir = l, !.sync_config = y] :
        p \in StoragePaths, l \in LocalDirs, y \in SyncConfigs}
ArgsStorage ==
    {[a EXCEPT !.name = n, !.run = r, !._experiment_checkpoint_dir = d] :
        a \in StorageSources, n \in Names,
        r \in {Str(<<"PPO">>), Str(<<>>), ClassT, Domain}, d \in CheckpointDirs}

NextStorage ==
    \/ Construct(ArgsStorage)
    \/ Discard
    \/ AdvanceClock
    \/ SetDatedFlag
    \/ SetStorageMode
SpecStorage == Init /\ [][NextStorage]_vars

\* the life of an Experiment object: built, then read while the clock and
\* the environment change
ArgsPaths ==
    {[DefaultArgs EXCEPT !.name = n, !.run = r, !.storage_path = p] :
        n \in {None, Str(<<"exp1">>)}, r \in {Str(<<"PPO">>), ClassT},
        p \in StoragePaths}

NextPaths ==
    \/ Construct(ArgsPaths)
    \/ Discard
    \/ ReadLocalPath
    \/ ReadRemotePath
    \/ ReadPath
    \/ AdvanceClock
    \/ SetDatedFlag
    \/ SetStorageMode
SpecPaths == Init /\ [][NextPaths]_vars

\* stop composition
ArgsStop ==
    {[DefaultArgs EXCEPT !.run = r, !.stop = s, !.time_budget_s = b] :
        r \in {Str(<<"PPO">>), ClassT, Int(5)}, s \in StopInputs, b \in TimeBudgets}
NextStop == Construct(ArgsStop) \/ Discard
SpecStop == Init /\ [][NextStop]_vars

\* checkpoint policy against the kind of trainable
CheckpointRuns ==
    {Str(<<"PPO">>), Str(<<"train_fn">>), Str(<<"unknown">>), Domain, ClassT, NamedT,
     FuncT, LambdaT, PartialT, ObjT}
ArgsCheckpoint ==
    {[DefaultArgs EXCEPT !.run = r, !.checkpoint_config = c] :
        r \in CheckpointRuns, c \in CheckpointInputs}
NextCheckpoint == Construct(ArgsCheckpoint) \/ Discard
SpecCheckpoint == Init /\ [][NextCheckpoint]_vars

\* log_to_file, on its own and through the constructor
ArgsLog ==
    {[DefaultArgs EXCEPT !.run = r, !.log_to_file = g] :
        r \in {Str(<<"PPO">>), ClassT}, g \in LogInputs}
NextLog == ValidateLogToFile \/ Construct(ArgsLog) \/ Discard
SpecLog == Init /\ [][NextLog]_vars

---------------------------------------------------------------------------
(* Properties *)

Args == call.args
Failed == call.op = "__init__" /\ call.err # "ok"
\* the storage mode and the dated-subdirectory flag the object was built under
BuiltUnified == call.env.storage_context
BuiltLegacy == ~call.env.storage_context

\* C1: a construction that raises leaves no spec on the object and leaves the
\* trainable registry holding exactly the entries it held before the call.
\* The code registers the trainable (line 180) before it resolves the storage
\* and validates `stop` and `log_to_file`, so this does not hold.
C1_FailedConstructionIsAtomic ==
    Failed => (exp.spec = Unset /\ registry = call.registry_before)

LegacyFields(self) ==
    {self._legacy_local_storage_path, self._legacy_remote_storage_path,
     self.legacy_sync_config, self.legacy_dir_name, self.legacy_name}

\* C2: after a successful construction exactly one storage representation is
\* populated: built in unified mode, the storage handle is set and the five
\* legacy fields are None; built in legacy mode, the storage handle is None
\* and the legacy local storage path and dir name are both non-empty.
C2_ExactlyOneStorageRepresentation ==
    Constructed =>
        /\ BuiltUnified =>
              exp.storage.t = "StorageContext" /\ LegacyFields(exp) = {None}
        /\ BuiltLegacy =>
              /\ exp.storage = None
              /\ Truthy(exp._legacy_local_storage_path)
              /\ Truthy(exp.legacy_dir_name)
        /\ (exp.storage # None) # (Truthy(exp._legacy_local_storage_path)
                                   /\ Truthy(exp.legacy_dir_name))

\* C2's case: a legacy-mode construction that succeeded with a directory name
\* taken from the checkpoint-dir override and a remote root
C2_Witness ==
    /\ Constructed
    /\ BuiltLegacy
    /\ Truthy(Args._experiment_checkpoint_dir)
    /\ Truthy(exp._legacy_remote_storage_path)

\* the policy as the caller wrote it, object or mapping
AsksCheckpointAtEnd(c) ==
    \/ c.t = "CheckpointConfig" /\ c.checkpoint_at_end = Bool(TRUE)
    \/ c.t = "dict" /\ "checkpoint_at_end" \in c.keys /\ c.checkpoint_at_end = Bool(TRUE)
AsksCheckpointFrequency(c) ==
    \/ c.t = "CheckpointConfig" /\ c.checkpoint_frequency # Int(0)
    \/ c.t = "dict" /\ "checkpoint_frequency" \in c.keys
         /\ c.checkpoint_frequency # Int(0)

\* C3: for a function-style trainable the construction fails with the
\* incompatible-checkpoint-policy error exactly when checkpoint_at_end is true
\* or checkpoint_frequency is non-zero, for a policy object and for a mapping
\* alike; for any other trainable it never fails with that error.
C3_FunctionTrainableRejectsCheckpointPolicy ==
    call.op = "__init__" =>
        LET asks == AsksCheckpointAtEnd(Args.checkpoint_config)
                    \/ AsksCheckpointFrequency(Args.checkpoint_config)
        IN  IF is_function_trainable(call.registry_before, Args.run)
            THEN (call.err = "IncompatibleCheckpointPolicyError") <=> asks
            ELSE call.err # "IncompatibleCheckpointPolicyError"

\* C3's case: a function trainable, a mapping that sets only the frequency,
\* and the construction refused
C3_Witness ==
    /\ Failed
    /\ call.err = "IncompatibleCheckpointPolicyError"
    /\ Args.run = FuncT
    /\ Args.checkpoint_config.t = "dict"
    /\ ~AsksCheckpointAtEnd(Args.checkpoint_config)

\* the stopper the claims expect of a list or callable `stop` on its own
StopperBuiltFrom(stop) ==
    CASE stop.t = "list" -> CombinedStopper(stop.items)
      [] IsCallable(stop) /\ stop.validFn -> FunctionStopper(stop)
      [] OTHER -> stop

HasTimeout(stopper) ==
    \/ stopper.t = "TimeoutStopper"
    \/ /\ stopper.t = "CombinedStopper"
       /\ \E i \in 1..Len(stopper.stoppers) : stopper.stoppers[i].t = "TimeoutStopper"

\* the parts of C4 that do not depend on how a list or callable is combined
StopBudgetCommon ==
    LET budget == TimeoutStopper(Args.time_budget_s) IN
    /\ Truthy(Args.time_budget_s) /\ Args.stop = None => exp._stopper = budget
    /\ Truthy(Args.time_budget_s) /\ Args.stop.t = "dict" =>
          exp.spec.stop = Args.stop /\ exp._stopper = budget
    /\ ~Truthy(Args.time_budget_s) => ~HasTimeout(exp._stopper)
    /\ exp.spec.stop = (IF Args.stop.t = "dict" THEN Args.stop ELSE Dict({}))

\* C4 as claimed: with a truthy time budget the stopper is the timeout stopper
\* alone for no stop and for a mapping stop (whose criteria pass through), and
\* for EVERY list or callable stop it is the OR-combination <built from stop,
\* timeout>; a falsy budget adds no timeout stopper; the raw criteria do not
\* depend on the budget.
C4_AsClaimed ==
    Constructed =>
        /\ StopBudgetCommon
        /\ Truthy(Args.time_budget_s) /\ (Args.stop.t = "list" \/ IsCallable(Args.stop)) =>
              exp._stopper =
                  CombinedStopper(<<StopperBuiltFrom(Args.stop),
                                    TimeoutStopper(Args.time_budget_s)>>)

\* C4, amended: as claimed, for a list or callable stop that is truthy (a
\* non-empty list, a callable that is not falsy); an empty list or a falsy
\* callable counts as no stop input, and the timeout stopper stands alone.
C4_StopWithTimeBudget ==
    Constructed =>
        /\ StopBudgetCommon
        /\ Truthy(Args.time_budget_s) /\ (Args.stop.t = "list" \/ IsCallable(Args.stop)) =>
              exp._stopper =
                  IF Truthy(Args.stop)
                  THEN CombinedStopper(<<StopperBuiltFrom(Args.stop),
                                         TimeoutStopper(Args.time_budget_s)>>)
                  ELSE TimeoutStopper(Args.time_budget_s)

\* C4's case: a list of two stoppers and a time budget of 30, combined
C4_Witness ==
    /\ Constructed
    /\ Args.stop = List(<<S1, S2>>)
    /\ Args.time_budget_s = Int(30)
    /\ exp._stopper.t = "CombinedStopper"

\* the steps of __init__ before the stop composition have passed
ReachedStopComposition == exp._stopper # Unset

HasNonStopper(stop) == \E i \in 1..Len(stop.items) : ~IsStopper(stop.items[i])

\* C5: a list stop with an element that is not a Stopper makes the
\* construction fail, with the invalid-stop-spec error once the earlier steps
\* have passed; a non-empty list of Stoppers yields one composite over exactly
\* those elements in their order (OR-combined with the timeout stopper when a
\* time budget is given, C4) and empty raw criteria.
C5_StopList ==
    call.op = "__init__" /\ Args.stop.t = "list" =>
        /\ HasNonStopper(Args.stop) =>
              /\ call.err # "ok"
              /\ ReachedStopComposition => call.err = "InvalidStopSpecError"
        /\ Constructed /\ Args.stop.items # <<>> =>
              /\ exp.spec.stop = Dict({})
              /\ exp._stopper =
                    IF Truthy(Args.time_budget_s)
                    THEN CombinedStopper(<<CombinedStopper(Args.stop.items),
                                           TimeoutStopper(Args.time_budget_s)>>)
                    ELSE CombinedStopper(Args.stop.items)

\* C5's case: a list whose second element is not a Stopper, refused
C5_Witness ==
    /\ Failed
    /\ call.err = "InvalidStopSpecError"
    /\ Args.stop = List(<<S1, Int(7)>>)

\* C6: a stop input that is supplied (not None) and is neither a list, a
\* mapping nor a callable makes the construction fail, with the
\* invalid-stop-spec error once the earlier steps have passed. The code tests
\* `if not stop` first, so 0, False, "" and () are taken for an absent stop.
C6_OtherStopTypesRejected ==
    (/\ call.op = "__init__"
     /\ Args.stop # None
     /\ Args.stop.t \notin {"list", "dict", "callable"}) =>
        /\ call.err # "ok"
        /\ ReachedStopComposition => call.err = "InvalidStopSpecError"

\* what _validate_log_to_file is claimed to return
ClaimedLogRouting(v) ==
    CASE v = None \/ v = Bool(FALSE) -> Ok(Tuple(<<None, None>>))
      [] v = Bool(TRUE) -> Ok(Tuple(<<Str(<<"stdout">>), Str(<<"stderr">>)>>))
      [] v.t = "str" -> Ok(Tuple(<<v, v>>))
      [] v.t \in {"list", "tuple"} /\ Len(v.items) = 2 ->
            Ok(Tuple(<<v.items[1], v.items[2]>>))
      [] OTHER -> Raise("InvalidLogRoutingError")

\* C7: log_to_file absent or false gives (None, None); true gives
\* ("stdout", "stderr"); a string s gives (s, s); a sequence [a, b] gives
\* (a, b); every other input, every sequence of another length included,
\* fails with the invalid-log-routing error. The code tests `if not
\* log_to_file` first, so "", [], () and 0 give (None, None) instead.
C7_LogToFileNormalization ==
    /\ call.op = "_validate_log_to_file" =>
          [err |-> call.err, ret |-> call.ret] = ClaimedLogRouting(Args)
    /\ call.op = "__init__" =>
          /\ call.err = ClaimedLogRouting(Args.log_to_file).err
          /\ Constructed =>
                exp.spec.log_to_file = ClaimedLogRouting(Args.log_to_file).ret

\* C8: built in legacy mode without a checkpoint-dir override, with
\* combinedName = name or runId, the directory name is combinedName verbatim
\* when the disabling flag is 1, or a (non-empty) name was given, or the run
\* reference is a string, and combinedName, "_" and the date of the
\* construction otherwise; local_path is the local root joined with it, so
\* storage_path "/tmp/x" and name "exp1" give /tmp/x/exp1.
C8_LegacyDirName ==
    Constructed /\ BuiltLegacy /\ ~Truthy(Args._experiment_checkpoint_dir) =>
        LET combinedName == IF Truthy(Args.name) THEN Args.name
                            ELSE exp._run_identifier
            verbatim == \/ call.env.TUNE_DISABLE_DATED_SUBDIR = "1"
                        \/ Truthy(Args.name)
                        \/ Args.run.t = "str"
            root == exp._legacy_local_storage_path.s
            dirName == exp.legacy_dir_name
        IN  /\ verbatim => dirName = combinedName
            /\ ~verbatim =>
                  dirName = Str(Format(combinedName) \o <<"_", "date", ToString(call.now)>>)
            /\ local_path(call.env, exp) = Ok(Str(root \o <<"/">> \o dirName.s))
            /\ Args.storage_path = Str(TmpX) /\ Args.name = Str(<<"exp1">>) =>
                  local_path(call.env, exp)
                      = Ok(Str(<<"/", "tmp", "/", "x", "/", "exp1">>))

\* C8's case: a class, no name, no flag, built after the clock has advanced:
\* the directory name carries the date
C8_Witness ==
    /\ Constructed
    /\ BuiltLegacy
    /\ Args.run = ClassT
    /\ Args.name = None
    /\ Args._experiment_checkpoint_dir = None
    /\ call.env.TUNE_DISABLE_DATED_SUBDIR = "unset"
    /\ call.now = 1
    /\ exp.legacy_dir_name = Str(<<"MyTrainable", "_", "date", "1">>)

\* what a read of the property would return now
ReadNow(prop) ==
    CASE prop = "local_path" -> Read(local_path(env, exp))
      [] prop = "remote_path" -> Read(remote_path(env, exp))
      [] prop = "path" -> Read(path(env, exp))

PathProperties == {"local_path", "remote_path", "path"}

\* C9: for an object built in legacy mode, a read of local_path, remote_path
\* or path in legacy mode returns what the first such read returned, however
\* the clock has advanced and the dated-subdirectory flag has changed since.
C9_PathsAreStable ==
    Constructed /\ BuiltLegacy /\ ~env.storage_context =>
        \A prop \in PathProperties :
            firstRead[prop] # Unset /\ ~firstRead[prop].storage_context =>
                ReadNow(prop) = firstRead[prop]

\* C9's case: a dated directory name, read once, then the clock advanced and
\* the flag set
C9_Witness ==
    /\ Constructed
    /\ BuiltLegacy
    /\ ~env.storage_context
    /\ exp.legacy_dir_name # exp.legacy_name
    /\ firstRead.local_path # Unset
    /\ ~firstRead.local_path.storage_context
    /\ now > call.now
    /\ env.TUNE_DISABLE_DATED_SUBDIR = "1"
    /\ call.env.TUNE_DISABLE_DATED_SUBDIR = "unset"

\* C10: register_if_needed returns a string, and a search-space placeholder,
\* unchanged, makes no registration call and leaves the registry as it was;
\* for a class or callable it makes exactly one registration call, with the
\* derived name.
C10_RegisterIfNeeded ==
    call.op = "register_if_needed" =>
        /\ Args.t \in {"str", "Domain"} =>
              /\ call.err = "ok"
              /\ call.ret = Args
              /\ call.calls = <<>>
              /\ registry = call.registry_before
        /\ Args.t = "trainable" =>
              call.calls = << <<get_trainable_name(Args).ret, Args.id>> >>

\* C10's case: a string that is not registered is resolved, after other
\* trainables have been registered
C10_Witness ==
    /\ call.op = "register_if_needed"
    /\ Args = Str(<<"unknown">>)
    /\ call.ret = Str(<<"unknown">>)
    /\ registry # InitialRegistry


\* a partial that carries neither `_name` nor `__name__`, over a function
\* that has a name
IsBarePartial(run) ==
    /\ run.t = "trainable"
    /\ run.kind = "partial"
    /\ run.attr_name = Unset
    /\ run.dunder_name = Unset
    /\ run.func_name # Unset

\* the function a partial wraps, as a run reference of its own
UnderlyingFunction(run) ==
    Trainable(run.id, "function", Unset, run.func_name, Unset, run.fn, run.reg)

\* C11: the name derived for a partial without `_name` and `__name__` is the
\* name derived for its underlying function: "lambda" over an anonymous
\* function, "DEFAULT" over a name that starts with "<". The code returns
\* func.__name__ as it is (line 409), so a partial over a lambda is named
\* "<lambda>".
C11_PartialNameRecurses ==
    call.op = "get_trainable_name" /\ IsBarePartial(Args) =>
        /\ call.err = "ok"
        /\ call.ret = get_trainable_name(UnderlyingFunction(Args)).ret
        /\ Args.func_name = Str(<<"<lambda>">>) => call.ret = Str(<<"lambda">>)
        /\ (Args.func_name # Str(<<"<lambda>">>) /\ Args.func_name.s[1] = "<") =>
              call.ret = Str(<<"DEFAULT">>)

\* what the property returns under the storage mode the object was built in
BuiltModeValue(prop) ==
    LET built == [env EXCEPT !.storage_context = call.env.storage_context] IN
    CASE prop = "local_path" -> local_path(built, exp)
      [] prop = "remote_path" -> remote_path(built, exp)
      [] prop = "path" -> path(built, exp)

\* C12: the storage mode is fixed when the object is built: every read of
\* local_path, remote_path and path, also one made after the mode flag has
\* changed, succeeds and returns the value of the mode the object was built
\* in. The properties call _use_storage_context() again on every read (lines
\* 489, 504), so a legacy-built object read under the unified flag raises
\* AttributeError and a unified-built object read under the legacy flag
\* returns None.
C12_ModeFixedAtConstruction ==
    Constructed =>
        \A prop \in PathProperties :
            firstRead[prop] # Unset =>
                /\ firstRead[prop].err = "ok"
                /\ firstRead[prop].ret = BuiltModeValue(prop).ret

====
